---- MODULE Spec2Model ----
(***************************************************************************)
(* Delivery orchestration of the car-business sales report:                *)
(*   utils/whatsapp_sender.py  (WhatsAppSender, TwilioDailyLimitExceeded)   *)
(*   utils/image_uploader.py   (upload_image_to_imgbb, upload_images_...)   *)
(*                                                                         *)
(* Python values are modelled as follows.  None is the string "None"; a    *)
(* str is a TLA+ string; a bool returned by a method is "True" / "False";  *)
(* an exception leaving a method is the name of its class.  A message is   *)
(* a record [body, parts]: body is the text of _format_summary and parts   *)
(* the sequence of sections that the code appends with +=.                 *)
(***************************************************************************)
EXTENDS Integers, Sequences, FiniteSets, TLC

\* ------------------------------------------------------------- bounds
MaxRetries == 3
MaxFiles == 2
MaxPaths == 5
MaxCalls == 2

\* ---------------------------------------------------- program constants
DefaultWait == 5
DailyLimitCode == 63038

None == "None"
ErrorString == "Error formateando resumen."
GraphsDir == "outputs/graphs"
LocalNote == "Los graficos del analisis se guardaron en la carpeta outputs/graphs."
NoGraphsNote == "No se encontraron graficos para adjuntar."

\* mutant: `is None` instead of `not x`
Falsy_NoneOnly(x) == x = None

\* `not x` of Python for an Optional[str]
Falsy(x) == x \in {None, ""}

\* ------------------------------------------------------------ helpers
Min(a, b) == IF a < b THEN a ELSE b
Max(a, b) == IF a > b THEN a ELSE b

\* Python's s[:n]: a negative n counts from the end
PySlice(s, n) ==
    IF n >= 0 THEN SubSeq(s, 1, Min(n, Len(s)))
    ELSE SubSeq(s, 1, Max(Len(s) + n, 0))

\* Python's zip(a, b): pairs up to the shorter length
Zip(a, b) == [i \in 1..Min(Len(a), Len(b)) |-> <<a[i], b[i]>>]

\* mutant: Top Modelos listed before Ventas por Canal
mapping_TopModelsFirst ==
    << <<"Resumen del Dashboard", "dashboard_summary.png">>,
       <<"Tendencia Mensual", "monthly_sales_trend.png">>,
       <<"Ventas por Segmento", "sales_by_segment.png">>,
       <<"Top Modelos", "top_models.png">>,
       <<"Ventas por Canal", "sales_by_channel.png">>,
       <<"Ventas por Sede", "sales_by_headquarter.png">> >>

\* ------------------------------------------------- _get_graphs_in_order
\* the fixed (title, file name) list of the method
mapping ==
    << <<"Resumen del Dashboard", "dashboard_summary.png">>,
       <<"Tendencia Mensual", "monthly_sales_trend.png">>,
       <<"Ventas por Segmento", "sales_by_segment.png">>,
       <<"Ventas por Canal", "sales_by_channel.png">>,
       <<"Top Modelos", "top_models.png">>,
       <<"Ventas por Sede", "sales_by_headquarter.png">> >>

FileNames == {mapping[i][2] : i \in 1..Len(mapping)}

\* os.path.join(graphs_dir, fname)
PathJoin(dir, fname) == [dir |-> dir, file |-> fname]

\* mutant: no check that the file exists
IsFile_Always(d, path) == TRUE

\* os.path.isfile(path) on a disk d = [dir_exists, files]
IsFile(d, path) ==
    /\ d.dir_exists
    /\ path.dir = GraphsDir
    /\ path.file \in d.files

RECURSIVE GraphsFrom(_, _, _)
\* the loop of _get_graphs_in_order over the rest m of mapping
GraphsFrom(m, d, graphs_dir) ==
    IF m = <<>> THEN <<>>
    ELSE LET title == Head(m)[1]
             path == PathJoin(graphs_dir, Head(m)[2])
         IN (IF IsFile(d, path) THEN << <<title, path>> >> ELSE <<>>)
            \o GraphsFrom(Tail(m), d, graphs_dir)

get_graphs_in_order(d, graphs_dir) == GraphsFrom(mapping, d, graphs_dir)

\* [p for (_t, p) in graph_title_and_paths]
PathsOf(refs) == [i \in 1..Len(refs) |-> refs[i][2]]

\* ---------------------------------------------------- image_uploader.py
\* the direct URL the hosting service returns for an uploaded file
UrlOf(path) == [url_of |-> path]
\* the None that stands for "no URL"
NoUrl == [url_of |-> [dir |-> "", file |-> ""]]

\* upload_image_to_imgbb: (ok, url); isfile and responds are the outcome of
\* os.path.isfile and of the HTTP exchange (200 with a usable URL field)
upload_image_to_imgbb(path, isfile, responds) ==
    IF ~isfile THEN [ok |-> FALSE, url |-> NoUrl]
    ELSE IF ~responds THEN [ok |-> FALSE, url |-> NoUrl]
    ELSE [ok |-> TRUE, url |-> UrlOf(path)]

\* mutant: max_count is ignored
UploadAttempted_All(image_paths, max_count) == image_paths

\* the paths upload_images_to_imgbb submits: image_paths[:max_count]
UploadAttempted(image_paths, max_count) == PySlice(image_paths, max_count)

RECURSIVE UploadLoop(_, _, _, _)
\* the for loop of upload_images_to_imgbb over the rest ps, idx counting from k+1
UploadLoop(ps, k, isfileAt, respondsAt) ==
    IF ps = <<>> THEN <<>>
    ELSE LET r == upload_image_to_imgbb(Head(ps), (k + 1) \in isfileAt,
                                        (k + 1) \in respondsAt)
         IN (IF r.ok /\ r.url # NoUrl THEN <<r.url>> ELSE <<>>)
            \o UploadLoop(Tail(ps), k + 1, isfileAt, respondsAt)

upload_images_to_imgbb(image_paths, max_count, isfileAt, respondsAt) ==
    UploadLoop(UploadAttempted(image_paths, max_count), 0, isfileAt, respondsAt)

\* ------------------------------------------------------------ messages
Message(body, parts) == [body |-> body, parts |-> parts]
Section(kind, items) == [kind |-> kind, items |-> items]
Append1(m, sec) == Message(m.body, Append(m.parts, sec))

\* the numbered "idx. title: url" lines built from zip(refs, urls)
LinkLines(refs, urls) ==
    [i \in 1..Len(Zip(refs, urls)) |->
        [idx |-> i, title |-> Zip(refs, urls)[i][1][1], url |-> Zip(refs, urls)[i][2]]]

\* mutant: an empty text instead of the error string
format_summary_Empty(results) ==
    IF results = "well_formed" THEN "Reporte de analisis de ventas"
    ELSE ""

\* _format_summary: the formatted text, or the fixed error string when any
\* lookup in results raises
format_summary(results) ==
    IF results = "well_formed" THEN "Reporte de analisis de ventas"
    ELSE ErrorString

\* ------------------------------------------------------- the transport
\* what twilio_client.messages.create / message.fetch can do in one attempt
TwilioResponses ==
    [kind : {"message"}, status : {"queued", "sent", "delivered", "failed", "undelivered"}]
    \cup [kind : {"TwilioRestException"}, code : {DailyLimitCode, 21211},
          text : {"daily messages limit", "invalid number"}]
    \cup [kind : {"Exception"}]

\* send_twilio_message: "True", "False" or the raised TwilioDailyLimitExceeded
send_twilio_message(client, resp) ==
    IF ~client THEN "False"
    ELSE IF resp.kind = "message"
         THEN (IF resp.status \in {"queued", "sent", "delivered"} THEN "True" ELSE "False")
    ELSE IF resp.kind = "TwilioRestException"
         THEN (IF resp.code = DailyLimitCode \/ resp.text = "daily messages limit"
               THEN "TwilioDailyLimitExceeded" ELSE "False")
    ELSE "False"

\* ------------------------------------------------------------- state
VARIABLES
    config,         \* self.config of the sender
    twilio_client,  \* TRUE when self.twilio_client is initialised
    imgbb_key,      \* os.getenv('IMGBB_API_KEY', '').strip()
    disk,           \* outputs/graphs: [dir_exists, files]
    importable,     \* whether `from utils.image_uploader import ...` succeeds
    budget,         \* number of top-level calls the run makes
    calls,          \* top-level calls started so far
    pc,             \* position of the running call
    entry,          \* the top-level method that was called
    args,           \* its arguments
    destiny,        \* local: the resolved destination
    simulate,       \* local: the resolved simulate flag
    message,        \* local: the message composed so far
    max_retries,    \* local of send_message
    attempt,        \* loop variable of send_message
    attempts,       \* send_twilio_message invocations of this call
    waits,          \* completed time.sleep(wait_time) of this call
    uploads,        \* paths submitted to upload_image_to_imgbb in this call
    simRuns,        \* simulate_send_with_graph_urls invocations of this call
    lastAttempt,    \* what the latest send_twilio_message returned or raised
    sendResult,     \* what send_message returned or raised in this call ("None": not yet)
    simResult,      \* what simulate_send_with_graph_urls returned ("None": not run)
    result,         \* what the top-level call returned or raised ("None": running)
    log,            \* outputs/simulation_log.txt: sequence of blocks
    snapshot,       \* outputs/simulation_message.txt: [exists, text]
    logWrites,      \* blocks appended to the log by this call
    snapWrites,     \* times this call opened the snapshot for writing
    sims,           \* every simulate_send_with_graph_urls run so far: [call, ok]
    arg,            \* input of a function called on its own
    ret             \* its output

env == <<config, twilio_client, imgbb_key, disk, importable, budget>>
locals == <<destiny, simulate, message, max_retries, attempt>>
history == <<attempts, waits, uploads, simRuns, lastAttempt, sendResult, simResult,
             logWrites, snapWrites>>
files == <<log, snapshot>>
harness == <<arg, ret>>
vars == <<env, calls, pc, entry, args, locals, history, result, files, sims, harness>>

\* ------------------------------------------------------- _load_config
RetryValues == 0..MaxRetries
WaitValues == {-1, DefaultWait}
Destinations == {"", "+51900000001"}

\* the snapshots _load_config can return (int() of the environment is unchecked)
Configs ==
    [destination_whatsapp : Destinations,
     simulate : BOOLEAN,
     max_retries : RetryValues,
     wait_time : WaitValues]

\* the chart files the renderer may have left in outputs/graphs
RenderedFiles == {mapping[i][2] : i \in 1..Min(MaxFiles, Len(mapping))}

Disks ==
    {[dir_exists |-> FALSE, files |-> {}]}
    \cup {[dir_exists |-> TRUE, files |-> S] : S \in SUBSET RenderedFiles}

NoMessage == Message("", <<>>)
NoSnapshot == [exists |-> FALSE, text |-> NoMessage]

\* nothing is running and no file has been written
Quiet ==
    /\ calls = 0
    /\ pc = "idle"
    /\ entry = "none"
    /\ args = <<>>
    /\ destiny = None
    /\ simulate = FALSE
    /\ message = NoMessage
    /\ max_retries = 0
    /\ attempt = 0
    /\ attempts = 0
    /\ waits = 0
    /\ uploads = <<>>
    /\ simRuns = 0
    /\ lastAttempt = None
    /\ sendResult = None
    /\ simResult = None
    /\ logWrites = 0
    /\ snapWrites = 0
    /\ result = None
    /\ log = <<>>
    /\ snapshot = NoSnapshot
    /\ sims = <<>>

Init ==
    /\ config \in Configs
    /\ twilio_client \in BOOLEAN
    /\ imgbb_key \in {"", "key"}
    /\ disk \in Disks
    /\ importable \in BOOLEAN
    /\ budget = 1
    /\ Quiet
    /\ arg = <<>>
    /\ ret = <<>>

\* ------------------------------------------------------- send_message
\* max_retries = self.config['max_retries'] if retry else 1
EffectiveRetries(retry) == IF retry THEN config.max_retries ELSE 1

\* mutant: the sleep is not skipped after the last attempt
SleepsAfter_EveryAttempt(att, maxr) == att < maxr

\* `if attempt < max_retries - 1` before each time.sleep
SleepsAfter(att, maxr) == att < maxr - 1

\* time.sleep(secs) raises ValueError for a negative length
SleepRaises(secs) == secs < 0

\* mutant: the daily limit is handled as an ordinary failed attempt
AfterAttempt_RetriesOnLimit(r, att, maxr, wait_time) ==
    IF r = "True" THEN "True"
    ELSE IF SleepsAfter(att, maxr)
         THEN (IF SleepRaises(wait_time) THEN "ValueError" ELSE "sleep")
    ELSE "next"

\* mutant: a successful attempt ends the call only when it is the last one
AfterAttempt_NoEarlyReturn(r, att, maxr, wait_time) ==
    IF r = "True" /\ att >= maxr - 1 THEN "True"
    ELSE IF r = "TwilioDailyLimitExceeded" THEN "TwilioDailyLimitExceeded"
    ELSE IF SleepsAfter(att, maxr)
         THEN (IF SleepRaises(wait_time) THEN "ValueError" ELSE "sleep")
    ELSE "next"

\* the body of the retry loop after send_twilio_message gave r: the value
\* send_message returns ("True"), the exception that leaves it, or how the
\* loop goes on ("sleep": after a completed time.sleep, "next": at once)
AfterAttempt(r, att, maxr, wait_time) ==
    IF r = "True" THEN "True"
    ELSE IF r = "TwilioDailyLimitExceeded" THEN "TwilioDailyLimitExceeded"
    ELSE IF SleepsAfter(att, maxr)
         \* a ValueError of time.sleep is caught by `except Exception`, whose
         \* own time.sleep raises it again, out of send_message
         THEN (IF SleepRaises(wait_time) THEN "ValueError" ELSE "sleep")
    ELSE "next"

\* mutant: send_full_report has no handler of its own for the daily limit,
\* which its `except Exception` turns into False
CallerHandles_NoFallback(caller, outcome) ==
    IF caller = "send_message"
    THEN [pc |-> "done", result |-> outcome]
    ELSE [pc |-> "done", result |-> IF outcome = "True" THEN "True" ELSE "False"]

\* mutant: send_full_report has no `except Exception` of its own, so what
\* send_message raises, the daily limit apart, leaves it
CallerHandles_NoCatchAll(caller, outcome) ==
    IF caller = "send_message"
    THEN [pc |-> "done", result |-> outcome]
    ELSE IF outcome = "TwilioDailyLimitExceeded"
    THEN [pc |-> "simulate", result |-> None]
    ELSE [pc |-> "done", result |-> outcome]

\* what the caller of send_message does with its outcome: where it goes on
\* and what it has returned.  A direct caller gets the outcome as it is;
\* send_full_report returns a boolean, falls back to the simulation on the
\* daily limit, and turns any other exception into False
CallerHandles(caller, outcome) ==
    IF caller = "send_message"
    THEN [pc |-> "done", result |-> outcome]
    ELSE IF outcome = "TwilioDailyLimitExceeded"
    THEN [pc |-> "simulate", result |-> None]
    ELSE [pc |-> "done", result |-> IF outcome = "True" THEN "True" ELSE "False"]

\* ------------------------------------------------- the start of a call
ResultsArgs == {"well_formed", "missing_summary_metrics", None}
DestinyArgs == {None, "", "+51900000002"}
SimulateArgs == {None, "True", "False"}

\* mutant: the simulate argument is ignored
ResolveSimulate_ConfigOnly(s) == config.simulate

\* `if simulate is None: simulate = bool(self.config.get('simulate'))`
ResolveSimulate(s) == IF s = None THEN config.simulate ELSE (s = "True")

\* `if not destiny: destiny = self.config['destination_whatsapp']`
ResolveDestiny(d) == IF Falsy(d) THEN config.destination_whatsapp ELSE d

\* the per-call counters start from zero
Fresh ==
    /\ attempts' = 0
    /\ waits' = 0
    /\ uploads' = <<>>
    /\ simRuns' = 0
    /\ lastAttempt' = None
    /\ sendResult' = None
    /\ simResult' = None
    /\ logWrites' = 0
    /\ snapWrites' = 0

CanCall == pc \in {"idle", "done"} /\ calls < budget

\* the first lines of send_full_report(results, destiny, simulate): resolve
\* the destination (fail fast when there is none), compose the summary,
\* resolve the simulate flag
SendFullReportStarts(r, d, s) ==
    LET dst == ResolveDestiny(d)
    IN /\ destiny' = dst
       /\ max_retries' = 0
       /\ attempt' = 0
       /\ IF Falsy(dst)
          THEN /\ result' = "False"
               /\ pc' = "done"
               /\ message' = NoMessage
               /\ simulate' = FALSE
          ELSE /\ result' = None
               /\ pc' = "graphs"
               /\ message' = Message(format_summary(r), <<>>)
               /\ simulate' = ResolveSimulate(s)

\* sender.send_full_report(results, destiny, simulate) up to the graph step
SendFullReportEntry ==
    \E r \in ResultsArgs, d \in DestinyArgs, s \in SimulateArgs :
        /\ CanCall
        /\ calls' = calls + 1
        /\ entry' = "send_full_report"
        /\ args' = [results |-> r, destiny |-> d, simulate |-> s]
        /\ Fresh
        /\ SendFullReportStarts(r, d, s)
        /\ UNCHANGED <<env, files, sims, harness>>

\* positions of ps that os.path.isfile accepts
FilesAt(ps) == {i \in 1..Len(ps) : IsFile(disk, ps[i])}

\* the message after the graph step, given the hosting service's answers
GraphStepMessage(m, respondsAt) ==
    IF imgbb_key # "" /\ disk.dir_exists
    THEN IF ~importable
         THEN Append1(m, Section("local_note", <<LocalNote>>))
         ELSE LET refs == get_graphs_in_order(disk, GraphsDir)
                  ordered_paths == PathsOf(refs)
                  uploaded == upload_images_to_imgbb(ordered_paths, Len(ordered_paths),
                                                     FilesAt(ordered_paths), respondsAt)
              IN IF uploaded # <<>>
                 THEN Append1(m, Section("online", LinkLines(refs, uploaded)))
                 ELSE m
    ELSE Append1(m, Section("local_note", <<LocalNote>>))

\* the paths the graph step submits to the image host
GraphStepUploads ==
    IF imgbb_key # "" /\ disk.dir_exists /\ importable
    THEN LET ordered_paths == PathsOf(get_graphs_in_order(disk, GraphsDir))
         IN UploadAttempted(ordered_paths, Len(ordered_paths))
    ELSE <<>>

\* send_full_report, the graph step and the choice of the delivery path;
\* on the live path send_message starts with retry=True and a resolved destiny
GraphStep ==
    /\ pc = "graphs"
    /\ \E respondsAt \in SUBSET (1..Len(GraphStepUploads)) :
          message' = GraphStepMessage(message, respondsAt)
    /\ uploads' = uploads \o GraphStepUploads
    /\ pc' = IF simulate THEN "simulate" ELSE "send"
    /\ max_retries' = IF simulate THEN 0 ELSE EffectiveRetries(TRUE)
    /\ attempt' = 0
    /\ UNCHANGED <<env, calls, entry, args, destiny, simulate, attempts, waits, simRuns,
                   lastAttempt, sendResult, simResult, logWrites, snapWrites, result,
                   files, sims, harness>>

\* send_message(message, destiny, retry) called on its own (as send_summary
\* and send_graph call it): resolve the destination, fix the retry count
SendMessageEntry ==
    \E d \in DestinyArgs, retry \in BOOLEAN :
        LET dst == ResolveDestiny(d)
        IN /\ CanCall
           /\ calls' = calls + 1
           /\ entry' = "send_message"
           /\ args' = [destiny |-> d, retry |-> retry]
           /\ Fresh
           /\ destiny' = dst
           /\ simulate' = FALSE
           /\ message' = Message("text", <<>>)
           /\ attempt' = 0
           /\ IF Falsy(dst)
              THEN /\ result' = "False"
                   /\ pc' = "done"
                   /\ max_retries' = 0
              ELSE /\ result' = None
                   /\ pc' = "send"
                   /\ max_retries' = EffectiveRetries(retry)
           /\ UNCHANGED <<env, files, sims, harness>>

\* send_message ends with outcome, a return value or a raised exception, and
\* its caller goes on
SendMessageEnds(outcome) ==
    /\ sendResult' = outcome
    /\ pc' = CallerHandles(entry, outcome).pc
    /\ result' = CallerHandles(entry, outcome).result

\* one iteration of the retry loop of send_message
SendAttempt ==
    /\ pc = "send"
    /\ attempt < max_retries
    /\ attempts' = attempts + 1
    /\ \E resp \in TwilioResponses :
         LET r == send_twilio_message(twilio_client, resp)
             next == AfterAttempt(r, attempt, max_retries, config.wait_time)
         IN /\ lastAttempt' = r
            /\ IF next \in {"True", "TwilioDailyLimitExceeded", "ValueError"}
               THEN /\ SendMessageEnds(next)
                    /\ UNCHANGED <<attempt, waits>>
               ELSE /\ attempt' = attempt + 1
                    /\ waits' = IF next = "sleep" THEN waits + 1 ELSE waits
                    /\ UNCHANGED <<pc, result, sendResult>>
    /\ UNCHANGED <<env, calls, entry, args, destiny, simulate, message, max_retries,
                   uploads, simRuns, simResult, logWrites, snapWrites, files, sims, harness>>

\* the loop of send_message is over: "all attempts failed", return False
SendExhausted ==
    /\ pc = "send"
    /\ attempt >= max_retries
    /\ SendMessageEnds("False")
    /\ UNCHANGED <<env, calls, entry, args, locals, attempts, waits, uploads, simRuns,
                   lastAttempt, simResult, logWrites, snapWrites, files, sims, harness>>

\* ------------------------------------- simulate_send_with_graph_urls
\* how the file system answers the calls of one simulated send
FsOutcomes == {"ok", "makedirs_error", "log_open_error", "snapshot_open_error",
               "snapshot_write_error"}

\* the paths the simulated send submits to the image host
SimulateUploads ==
    LET graph_files == PathsOf(get_graphs_in_order(disk, GraphsDir))
    IN IF imgbb_key # "" /\ graph_files # <<>> /\ importable
       THEN UploadAttempted(graph_files, Len(graph_files))
       ELSE <<>>

\* urls: what upload_images_to_imgbb returned, [] when it was not called or
\* the import raised
SimulateUrls(respondsAt) ==
    LET graph_files == PathsOf(get_graphs_in_order(disk, GraphsDir))
    IN IF imgbb_key # "" /\ graph_files # <<>> /\ importable
       THEN upload_images_to_imgbb(graph_files, Len(graph_files),
                                   FilesAt(graph_files), respondsAt)
       ELSE <<>>

\* mutant: without URLs the message only says that no graphs were found
SimulatedMessage_NoLocalFallback(base_message, urls) ==
    IF urls # <<>>
    THEN Append1(base_message,
                 Section("online_simulated",
                         LinkLines(get_graphs_in_order(disk, GraphsDir), urls)))
    ELSE Append1(base_message, Section("no_graphs", <<NoGraphsNote>>))

\* "compose simulated message"
SimulatedMessage(base_message, urls) ==
    LET refs == get_graphs_in_order(disk, GraphsDir)
        graph_files == PathsOf(refs)
    IN IF urls # <<>>
       THEN Append1(base_message, Section("online_simulated", LinkLines(refs, urls)))
       ELSE IF graph_files # <<>>
       THEN Append1(base_message, Section("local_files", graph_files))
       ELSE Append1(base_message, Section("no_graphs", <<NoGraphsNote>>))

\* one block of simulation_log.txt: "=== ts ===", the message, the separator
LogBlock(ts, m) == [ts |-> ts, message |-> m]

\* mutant: the log is opened for writing, which empties it first
OpenAppend_Truncating(content, block) == <<block>>

\* `with open(log_path, 'a', ...)`: what the file holds after the block is
\* written at its end
OpenAppend(content, block) == Append(content, block)

\* the value simulate_send_with_graph_urls returns
SimulateReturns(fs) == IF fs = "ok" THEN "True" ELSE "False"

\* simulate_send_with_graph_urls(message), whose value send_full_report returns
SimulateSend ==
    /\ pc = "simulate"
    /\ simRuns' = simRuns + 1
    /\ \E fs \in FsOutcomes, respondsAt \in SUBSET (1..Len(SimulateUploads)) :
         LET m == SimulatedMessage(message, SimulateUrls(respondsAt))
         IN /\ result' = SimulateReturns(fs)
            /\ simResult' = SimulateReturns(fs)
            /\ IF fs = "makedirs_error"
               THEN UNCHANGED <<uploads, log, snapshot, logWrites, snapWrites>>
               ELSE /\ uploads' = uploads \o SimulateUploads
                    /\ IF fs = "log_open_error"
                       THEN UNCHANGED <<log, snapshot, logWrites, snapWrites>>
                       ELSE /\ log' = OpenAppend(log, LogBlock(calls, m))
                            /\ logWrites' = logWrites + 1
                            /\ IF fs = "snapshot_open_error"
                               THEN UNCHANGED <<snapshot, snapWrites>>
                               ELSE /\ snapWrites' = snapWrites + 1
                                    /\ snapshot' =
                                         IF fs = "snapshot_write_error"
                                         THEN [exists |-> TRUE, text |-> NoMessage]
                                         ELSE [exists |-> TRUE, text |-> m]
    /\ pc' = "done"
    /\ sims' = Append(sims, [call |-> calls, ok |-> (simResult' = "True")])
    /\ UNCHANGED <<env, calls, entry, args, locals, attempts, waits, lastAttempt,
                   sendResult, harness>>

Next ==
    \/ SendFullReportEntry
    \/ SendMessageEntry
    \/ GraphStep
    \/ SendAttempt
    \/ SendExhausted
    \/ SimulateSend

Spec == Init /\ [][Next]_vars

\* ------------------------------------------------ the module's drivers
Drivers == {"send_whatsapp_report", "send_whatsapp_report_simulated"}

\* the simulate argument the driver passes to send_full_report
DriverSimulate(driver) ==
    IF driver = "send_whatsapp_report_simulated" THEN "True" ELSE None

\* send_whatsapp_report(results, destiny) and its simulated twin: build a
\* sender and return what its send_full_report returns.  The constructor
\* raises when int() rejects the text of WHATSAPP_MAX_RETRIES or
\* WHATSAPP_WAIT_TIME; the driver's `except Exception` returns False then
DriverEntry ==
    \E driver \in Drivers, r \in ResultsArgs, d \in DestinyArgs,
       constructed \in BOOLEAN :
        /\ CanCall
        /\ calls' = calls + 1
        /\ entry' = driver
        /\ args' = [results |-> r, destiny |-> d, simulate |-> DriverSimulate(driver)]
        /\ Fresh
        /\ IF constructed
           THEN SendFullReportStarts(r, d, DriverSimulate(driver))
           ELSE /\ destiny' = None
                /\ simulate' = FALSE
                /\ message' = NoMessage
                /\ max_retries' = 0
                /\ attempt' = 0
                /\ result' = "False"
                /\ pc' = "done"
        /\ UNCHANGED <<env, files, sims, harness>>

\* a run of a driver: its call, then the steps of the send_full_report it
\* calls (send_message among them)
NextDrivers ==
    \/ DriverEntry
    \/ GraphStep
    \/ SendAttempt
    \/ SendExhausted
    \/ SimulateSend

SpecDrivers == Init /\ [][NextDrivers]_vars

\* ------------------------------------- several calls on the same files
\* a sender in simulation mode, without a transport and without an
\* image-hosting key: each report it sends is written to the simulation
\* files that the calls before it left
InitLog ==
    /\ config = [destination_whatsapp |-> "+51900000001",
                 simulate |-> TRUE,
                 max_retries |-> 1,
                 wait_time |-> DefaultWait]
    /\ twilio_client = FALSE
    /\ imgbb_key = ""
    /\ disk \in {[dir_exists |-> TRUE, files |-> S] : S \in {{}, RenderedFiles}}
    /\ importable = TRUE
    /\ budget = MaxCalls
    /\ Quiet
    /\ arg = <<>>
    /\ ret = <<>>

SpecLog == InitLog /\ [][Next]_vars

\* ------------------------------- _get_graphs_in_order called on its own
\* any content of the directory: the six chart files and a file of another name
AnyDisks ==
    {[dir_exists |-> FALSE, files |-> {}]}
    \cup {[dir_exists |-> TRUE, files |-> S] : S \in SUBSET (FileNames \cup {"notes.txt"})}

InitGraphs ==
    /\ config = [destination_whatsapp |-> "", simulate |-> FALSE,
                 max_retries |-> 3, wait_time |-> DefaultWait]
    /\ twilio_client = FALSE
    /\ imgbb_key = ""
    /\ disk \in AnyDisks
    /\ importable = TRUE
    /\ budget = 0
    /\ Quiet
    /\ arg \in [graphs_dir : {GraphsDir, "outputs"}]
    /\ ret = <<>>

\* result = self._get_graphs_in_order(graphs_dir)
CallGetGraphs ==
    /\ pc = "idle"
    /\ pc' = "returned"
    /\ ret' = get_graphs_in_order(disk, arg.graphs_dir)
    /\ UNCHANGED <<env, calls, entry, args, locals, history, result, files, sims, arg>>

NextGraphs == CallGetGraphs

SpecGraphs == InitGraphs /\ [][NextGraphs]_vars

\* ----------------------------- upload_images_to_imgbb called on its own
\* n paths of distinct files
SomePaths(n) == [i \in 1..n |-> PathJoin("charts", i)]

InitUpload ==
    /\ config = [destination_whatsapp |-> "", simulate |-> FALSE,
                 max_retries |-> 3, wait_time |-> DefaultWait]
    /\ twilio_client = FALSE
    /\ imgbb_key = "key"
    /\ disk = [dir_exists |-> FALSE, files |-> {}]
    /\ importable = TRUE
    /\ budget = 0
    /\ Quiet
    /\ \E n \in 0..MaxPaths :
          arg \in [image_paths : {SomePaths(n)},
                   max_count : 0..(MaxPaths + 1),
                   isfileAt : SUBSET (1..n)]
    /\ ret = <<>>

\* urls = upload_images_to_imgbb(image_paths, api_key, max_count=max_count);
\* ret also records what the call submitted and what the service answered
CallUploadImages ==
    /\ pc = "idle"
    /\ pc' = "returned"
    /\ \E respondsAt \in SUBSET (1..Len(arg.image_paths)) :
          ret' = [attempted |-> UploadAttempted(arg.image_paths, arg.max_count),
                  respondsAt |-> respondsAt,
                  urls |-> upload_images_to_imgbb(arg.image_paths, arg.max_count,
                                                  arg.isfileAt, respondsAt)]
    /\ UNCHANGED <<env, calls, entry, args, locals, history, result, files, sims, arg>>

NextUpload == CallUploadImages

SpecUpload == InitUpload /\ [][NextUpload]_vars

\* ===================================================== properties
\* send_message runs with the configured retry count
RetryEnabled ==
    \/ entry = "send_full_report"
    \/ entry = "send_message" /\ args.retry

\* send_message has been called with a resolved destination
SendMessageCalled ==
    /\ entry \in {"send_full_report", "send_message"}
    /\ ~Falsy(destiny)
    /\ \/ pc = "send"
       \/ sendResult # None

\* C1: with a retry count N >= 1, a wait_time that is a valid sleep length
\* and a transport whose every attempt fails generically, send_message called
\* with a resolved destination and retry enabled sleeps once after each failed
\* attempt except the N-th, and ends by returning False after exactly N
\* attempts and exactly N-1 waits.
C1_RetriesExhausted ==
    (/\ SendMessageCalled
     /\ RetryEnabled
     /\ config.max_retries >= 1
     /\ config.wait_time >= 0
     /\ lastAttempt \in {None, "False"})
    => /\ attempts <= config.max_retries
       /\ waits = Min(attempts, config.max_retries - 1)
       /\ sendResult \in {None, "False"}
       /\ sendResult = "False" => /\ attempts = config.max_retries
                                  /\ waits = config.max_retries - 1

\* C1 witness: three failed attempts, two waits, False returned
C1_Witness ==
    /\ SendMessageCalled
    /\ RetryEnabled
    /\ config.max_retries = 3
    /\ config.wait_time >= 0
    /\ twilio_client
    /\ lastAttempt = "False"
    /\ sendResult = "False"
    /\ attempts = 3
    /\ waits = 2


\* C2: when an attempt of send_message raises TwilioDailyLimitExceeded,
\* send_message ends at once by raising it to its caller (a direct caller
\* sees the exception, not a boolean): the only waits are those after the
\* earlier failed attempts, and within the call no attempt and no wait follows.
C2_LimitStops ==
    /\ [](lastAttempt = "TwilioDailyLimitExceeded"
          => /\ sendResult = "TwilioDailyLimitExceeded"
             /\ attempts <= max_retries
             /\ waits = attempts - 1
             /\ entry = "send_message"
                  => (pc = "done" /\ result = "TwilioDailyLimitExceeded"))
    /\ [][(lastAttempt = "TwilioDailyLimitExceeded" /\ calls' = calls)
          => (attempts' = attempts /\ waits' = waits /\ sendResult' = sendResult)]_vars

\* C2 witness: the second of three attempts hit the daily limit and the
\* exception reached the direct caller
C2_Witness ==
    /\ entry = "send_message"
    /\ max_retries = 3
    /\ lastAttempt = "TwilioDailyLimitExceeded"
    /\ attempts = 2
    /\ waits = 1
    /\ pc = "done"
    /\ result = "TwilioDailyLimitExceeded"


\* neither the destiny argument nor the configured destination is non-empty
NoDestination ==
    /\ args.destiny \in {None, ""}
    /\ config.destination_whatsapp = ""

\* C3: when neither the destiny argument nor the configured destination is
\* non-empty, send_full_report returns False with no transport attempt, no
\* image upload and nothing written to the simulation log or the message
\* snapshot, whatever the simulate flag is.
C3_NoDestinationFailsFast ==
    (entry = "send_full_report" /\ NoDestination)
    => /\ pc = "done"
       /\ result = "False"
       /\ attempts = 0
       /\ sendResult = None
       /\ uploads = <<>>
       /\ simRuns = 0
       /\ logWrites = 0
       /\ snapWrites = 0

\* C3 witness: no destination anywhere, simulation asked for by the argument
\* on a disk with charts and an image-hosting key
C3_Witness ==
    /\ entry = "send_full_report"
    /\ NoDestination
    /\ args.simulate = "True"
    /\ imgbb_key # ""
    /\ disk.files # {}
    /\ pc = "done"
    /\ result = "False"

\* m is the message base followed by further sections
Extends(m, base) ==
    /\ m.body = base.body
    /\ Len(m.parts) >= Len(base.parts)
    /\ SubSeq(m.parts, 1, Len(base.parts)) = base.parts

\* this call appended one block to the log and wrote the same message, the
\* composed one with the simulation's section, to the snapshot
RecordWritten ==
    /\ logWrites = 1
    /\ snapWrites = 1
    /\ log # <<>>
    /\ snapshot.exists
    /\ snapshot.text = log[Len(log)].message
    /\ Extends(snapshot.text, message)
    /\ Len(snapshot.text.parts) = Len(message.parts) + 1

\* C4: when live delivery inside send_full_report ends with
\* TwilioDailyLimitExceeded, send_full_report does not raise it: it makes no
\* further transport attempt, runs simulate_send_with_graph_urls exactly once
\* and returns what that returns, True exactly when the simulation record
\* was written.
C4_LimitFallsBack ==
    /\ []((entry = "send_full_report" /\ sendResult = "TwilioDailyLimitExceeded")
          => /\ \/ pc = "simulate" /\ simRuns = 0 /\ result = None
                \/ pc = "done" /\ simRuns = 1 /\ result = simResult
                   /\ result \in {"True", "False"}
             /\ logWrites <= 1
             /\ snapWrites <= 1
             /\ pc = "done" => (result = "True" <=> RecordWritten))
    /\ [][(entry = "send_full_report" /\ sendResult = "TwilioDailyLimitExceeded"
           /\ calls' = calls) => attempts' = attempts]_vars

\* C4 witness: the daily limit on the second attempt, then the simulation
\* record written and True returned
C4_Witness ==
    /\ entry = "send_full_report"
    /\ sendResult = "TwilioDailyLimitExceeded"
    /\ attempts = 2
    /\ pc = "done"
    /\ simRuns = 1
    /\ result = "True"
    /\ RecordWritten

\* the simulate argument if it is not None, otherwise the configured default
SimulatedModeActive ==
    IF args.simulate = None THEN config.simulate ELSE args.simulate = "True"

\* a send_full_report call in simulated mode with a resolved destination
SimulatedCall ==
    /\ entry = "send_full_report"
    /\ ~NoDestination
    /\ SimulatedModeActive

\* C5 as claimed: in simulated mode with a resolved destination the live
\* transport is never invoked, the composed message is written to the
\* simulation record and the call reports success.
C5_Original ==
    SimulatedCall
    => /\ attempts = 0
       /\ sendResult = None
       /\ pc = "done" => (result = "True" /\ RecordWritten)

\* C5 as amended: in simulated mode with a resolved destination the live
\* transport is never invoked and simulate_send_with_graph_urls runs once; the
\* call returns True exactly when the composed message was written to the log
\* and to the snapshot, and False when the file system refused one of them.
C5_SimulatedMode ==
    SimulatedCall
    => /\ attempts = 0
       /\ sendResult = None
       /\ pc \in {"graphs", "simulate", "done"}
       /\ pc = "done" => /\ simRuns = 1
                         /\ result = simResult
                         /\ result \in {"True", "False"}
                         /\ result = "True" <=> RecordWritten

\* C5 witness: the argument overrides the configured default, the record is
\* written and True is returned
C5_Witness ==
    /\ SimulatedCall
    /\ args.simulate = "True"
    /\ ~config.simulate
    /\ twilio_client
    /\ pc = "done"
    /\ result = "True"
    /\ RecordWritten
    /\ attempts = 0


\* the canonical order of the graphs: dashboard summary, monthly trend,
\* segment, channel, top models, headquarter
Canonical ==
    << [title |-> "Resumen del Dashboard", file |-> "dashboard_summary.png"],
       [title |-> "Tendencia Mensual", file |-> "monthly_sales_trend.png"],
       [title |-> "Ventas por Segmento", file |-> "sales_by_segment.png"],
       [title |-> "Ventas por Canal", file |-> "sales_by_channel.png"],
       [title |-> "Top Modelos", file |-> "top_models.png"],
       [title |-> "Ventas por Sede", file |-> "sales_by_headquarter.png"] >>

\* the i-th smallest element of a set of numbers
Nth(S, i) == CHOOSE k \in S : Cardinality({j \in S : j < k}) = i - 1

\* the canonical positions whose file is in directory dir of the disk
PresentIn(dir) ==
    {k \in 1..Len(Canonical) :
        disk.dir_exists /\ dir = GraphsDir /\ Canonical[k].file \in disk.files}

\* the references of the present files, by increasing canonical position
ExpectedRefs(dir) ==
    [i \in 1..Cardinality(PresentIn(dir)) |->
        <<Canonical[Nth(PresentIn(dir), i)].title,
          [dir |-> dir, file |-> Canonical[Nth(PresentIn(dir), i)].file]>>]

\* the directory holds, of the six, only top_models.png and sales_by_channel.png
OnlyTopModelsAndChannel ==
    /\ pc = "returned"
    /\ disk.dir_exists
    /\ arg.graphs_dir = GraphsDir
    /\ disk.files \cap FileNames = {"top_models.png", "sales_by_channel.png"}

\* C6 as claimed: with only top_models.png and sales_by_channel.png present,
\* _get_graphs_in_order returns exactly two references, Top Modelos before
\* Ventas por Canal.
C6_Original ==
    OnlyTopModelsAndChannel
    => /\ Len(ret) = 2
       /\ ret[1][1] = "Top Modelos"
       /\ ret[2][1] = "Ventas por Canal"

\* C6 as amended: with only top_models.png and sales_by_channel.png present,
\* _get_graphs_in_order returns exactly two references in canonical order,
\* Ventas por Canal (position 4) before Top Modelos (position 5), and none of
\* the four other titles.
C6_ChannelBeforeTopModels ==
    OnlyTopModelsAndChannel
    => ret = << <<"Ventas por Canal",
                  [dir |-> "outputs/graphs", file |-> "sales_by_channel.png"]>>,
                <<"Top Modelos",
                  [dir |-> "outputs/graphs", file |-> "top_models.png"]>> >>

\* C6 witness: the call returned two references for that directory
C6_Witness ==
    /\ OnlyTopModelsAndChannel
    /\ "notes.txt" \notin disk.files
    /\ Len(ret) = 2

\* C7: for every subset of the six canonical files present on disk,
\* _get_graphs_in_order returns exactly the references of the present files,
\* each once, by increasing canonical position; a missing file is left out.
C7_PresentInCanonicalOrder ==
    pc = "returned" => ret = ExpectedRefs(arg.graphs_dir)

\* C7 witness: three of the six files (and a file of another name) present,
\* three references returned
C7_Witness ==
    /\ pc = "returned"
    /\ arg.graphs_dir = GraphsDir
    /\ disk.files = {"sales_by_headquarter.png", "dashboard_summary.png",
                     "sales_by_segment.png", "notes.txt"}
    /\ Len(ret) = 3
    /\ ret[3][1] = "Ventas por Sede"

\* the positions among the first min(max_count, len(paths)) whose upload succeeds
UploadedOk ==
    {i \in 1..Min(arg.max_count, Len(arg.image_paths)) :
        i \in arg.isfileAt /\ i \in ret.respondsAt}

\* C8: upload_images_to_imgbb submits exactly the first min(max_count,
\* len(paths)) paths, each once and in input order, and returns the URLs of
\* the successful uploads only, in the order of their paths, with no
\* placeholder for a failure.
C8_UploadsFirstMaxCount ==
    pc = "returned"
    => /\ ret.attempted = SubSeq(arg.image_paths, 1,
                                 Min(arg.max_count, Len(arg.image_paths)))
       /\ Len(ret.urls) = Cardinality(UploadedOk)
       /\ \A j \in 1..Len(ret.urls) :
             ret.urls[j] = [url_of |-> arg.image_paths[Nth(UploadedOk, j)]]

\* C8 witness: 5 paths, max_count = 3, the 2nd upload fails: [url1, url3]
C8_Witness ==
    /\ pc = "returned"
    /\ Len(arg.image_paths) = 5
    /\ arg.max_count = 3
    /\ arg.isfileAt = 1..5
    /\ ret.respondsAt = {1, 3, 4, 5}
    /\ Len(ret.attempted) = 3
    /\ ret.urls = <<[url_of |-> arg.image_paths[1]], [url_of |-> arg.image_paths[3]]>>

\* the kinds of the sections of message m
KindsOf(m) == {m.parts[i].kind : i \in 1..Len(m.parts)}

\* C9: in simulated mode with no image-hosting key and graph files on disk,
\* the message written to the simulation record has the local-files section
\* listing exactly the paths of the existing graph files in canonical order,
\* and no online-URL section.
C9_LocalFilesFallback ==
    (/\ SimulatedCall
     /\ imgbb_key = ""
     /\ disk.files # {}
     /\ logWrites = 1)
    => LET m == log[Len(log)].message
       IN /\ m.parts[Len(m.parts)] =
                [kind |-> "local_files", items |-> PathsOf(ExpectedRefs(GraphsDir))]
          /\ Cardinality({i \in 1..Len(m.parts) : m.parts[i].kind = "local_files"}) = 1
          /\ "online" \notin KindsOf(m)
          /\ "online_simulated" \notin KindsOf(m)
          /\ result = "True" => snapshot.text = m

\* C9 witness: two graph files, no key, the record written
C9_Witness ==
    /\ SimulatedCall
    /\ imgbb_key = ""
    /\ Cardinality(disk.files) = 2
    /\ result = "True"
    /\ RecordWritten
    /\ Len(snapshot.text.parts[Len(snapshot.text.parts)].items) = 2

\* delivery has been reached: send_message was called or the simulation ran
DeliveryReached == pc = "send" \/ sendResult # None \/ pc = "simulate" \/ simRuns = 1

\* C10: when the result bundle is missing or malformed, _format_summary
\* returns the fixed error string and send_full_report goes on: the graph step
\* runs and delivery, live or simulated, gets that string as the message body.
C10_FormatErrorIsNotFatal ==
    (/\ entry = "send_full_report"
     /\ ~NoDestination
     /\ args.results # "well_formed")
    => /\ message.body = "Error formateando resumen."
       /\ pc = "graphs" \/ DeliveryReached
       /\ (DeliveryReached /\ imgbb_key = "")
            => message.parts = <<[kind |-> "local_note", items |-> <<LocalNote>>]>>
       /\ logWrites = 1 => log[Len(log)].message.body = "Error formateando resumen."
       /\ pc = "done" => result \in {"True", "False"}

\* C10 witness: summary_metrics missing, the error string delivered live
C10_Witness ==
    /\ entry = "send_full_report"
    /\ args.results = "missing_summary_metrics"
    /\ message.body = "Error formateando resumen."
    /\ attempts = 1
    /\ lastAttempt = "True"
    /\ pc = "done"
    /\ result = "True"

\* ---------------------------------------------------------------- C11
Reports == {"send_full_report"} \cup Drivers

\* C11: send_full_report and the two drivers always end by returning a
\* boolean: while one of them runs it is at the graph step, in the retry
\* loop (which stays within its bound and always has a step to take) or at
\* the simulation, and once it has ended its value is True or False,
\* whatever the transport, the publisher and the file system did
C11_AlwaysReturnsBoolean ==
    entry \in Reports =>
        /\ result \in {None, "True", "False"}
        /\ (pc = "done") <=> (result \in {"True", "False"})
        /\ attempt <= Max(max_retries, 0)
        /\ pc \in {"graphs", "send", "simulate", "done"}
        /\ pc = "send" => ENABLED (SendAttempt \/ SendExhausted)

\* a driver whose send raised out of time.sleep has returned False
C11_Witness ==
    /\ entry \in Drivers
    /\ sendResult = "ValueError"
    /\ pc = "done"
    /\ result = "False"

\* ---------------------------------------------------------------- C12
\* every simulated send so far returned True
AllSimsOk == \A i \in 1..Len(sims) : sims[i].ok

\* C12: after k simulated sends that all succeeded the log holds k blocks,
\* the i-th stamped by the i-th send, and the snapshot holds the message of
\* the latest block; a step never changes or removes a block the log
\* already holds, and a successful send adds one block, carrying the message
\* it composed from the report's message, and leaves that message in the
\* snapshot
C12_LogKeepsEverySend ==
    /\ [](AllSimsOk =>
            /\ Len(log) = Len(sims)
            /\ \A i \in 1..Len(sims) : log[i].ts = sims[i].call
            /\ \A i \in 1..Len(log), j \in 1..Len(log) : i < j => log[i].ts < log[j].ts
            /\ sims # <<>> =>
                  snapshot = [exists |-> TRUE, text |-> log[Len(log)].message])
    /\ [][/\ Len(log') >= Len(log)
          /\ SubSeq(log', 1, Len(log)) = log
          /\ (sims' # sims /\ simResult' = "True") =>
                /\ log' = Append(log, LogBlock(calls, snapshot'.text))
                /\ Extends(snapshot'.text, message)
                /\ Len(snapshot'.text.parts) = Len(message.parts) + 1]_vars

\* two simulated sends succeeded, the second with another message
C12_Witness ==
    /\ Len(sims) = 2
    /\ AllSimsOk
    /\ Len(log) = 2
    /\ log[1].message # log[2].message
    /\ snapshot.text = log[2].message

\* ---------------------------------------------------------------- C13
\* C13: in send_message called with a resolved destination, the attempt that
\* succeeds is the last one made: it is attempt k <= N, the call has returned
\* True with the k-1 waits that followed the failed attempts before it, and
\* no attempt or wait follows in the call.  True is returned only after a
\* successful attempt, and after a generic failure that is not the N-th the
\* call goes on to the next attempt (wait_time being a valid sleep length),
\* so that a success among the first N attempts is reached unless the daily
\* limit came first
C13_StopsAtFirstSuccess ==
    /\ [](SendMessageCalled =>
            /\ lastAttempt = "True" =>
                  /\ sendResult = "True"
                  /\ attempts \in 1..max_retries
                  /\ waits = attempts - 1
                  /\ entry = "send_message" => (pc = "done" /\ result = "True")
            /\ sendResult = "True" => lastAttempt = "True"
            /\ (config.wait_time >= 0 /\ lastAttempt = "False" /\ attempts < max_retries)
                  => (sendResult = None /\ pc = "send" /\ waits = attempts))
    /\ [][(lastAttempt = "True" /\ calls' = calls)
          => (attempts' = attempts /\ waits' = waits /\ sendResult' = sendResult)]_vars

\* the third of three attempts is the first to succeed: True after two waits
C13_Witness ==
    /\ entry = "send_message"
    /\ max_retries = 3
    /\ lastAttempt = "True"
    /\ attempts = 3
    /\ waits = 2
    /\ sendResult = "True"
    /\ result = "True"

\* ---------------------------------------------------------------- C14
\* the file of the graph with title t
FileOfTitle(t) ==
    Canonical[CHOOSE k \in 1..Len(Canonical) : Canonical[k].title = t].file

\* every numbered link line of m carries the URL of the upload of the file
\* its title names
LinesAligned(m) ==
    \A i \in 1..Len(m.parts) :
        m.parts[i].kind \in {"online", "online_simulated"} =>
            \A j \in 1..Len(m.parts[i].items) :
                m.parts[i].items[j].url =
                    UrlOf(PathJoin(GraphsDir, FileOfTitle(m.parts[i].items[j].title)))

\* C14: in every numbered "title: URL" line that send_full_report or
\* simulate_send_with_graph_urls appends, in the message and in what the
\* simulation writes, the URL is the one returned for the file of the graph
\* the title names, also when some uploads failed
C14_LinesNameTheirUpload ==
    /\ LinesAligned(message)
    /\ \A b \in 1..Len(log) : LinesAligned(log[b].message)
    /\ snapshot.exists => LinesAligned(snapshot.text)

\* ---------------------------------------------------------------- C15
\* the sections of m that list graph links
LinkSections(m) ==
    {i \in 1..Len(m.parts) : m.parts[i].kind \in {"online", "online_simulated"}}

\* C15: within one send_full_report call no graph file is submitted to the
\* image host twice, on the live path, in simulated mode and after the
\* fallback to the simulation alike, and the message, as sent and as written
\* by the simulation, has at most one section of graph links
C15_EachFileUploadedOnce ==
    entry = "send_full_report" =>
        /\ \A i \in 1..Len(uploads), j \in 1..Len(uploads) :
              i # j => uploads[i] # uploads[j]
        /\ Cardinality(LinkSections(message)) <= 1
        /\ \A b \in 1..Len(log) : Cardinality(LinkSections(log[b].message)) <= 1
        /\ snapshot.exists => Cardinality(LinkSections(snapshot.text)) <= 1

\* ---------------------------------------------------------------- C16
\* C16: the configuration a sender holds has a retry count of at least 1 and
\* a wait of at least 0 seconds, so that a send_message call with a resolved
\* destination has made at least one transport attempt when it returns False
C16_ConfigInDomain ==
    SendMessageCalled =>
        /\ config.max_retries >= 1
        /\ config.wait_time >= 0
        /\ sendResult = "False" => attempts >= 1

\* ---------------------------------------------------------------- C17
\* the sections of m that the graph step appends
GraphAnnotations(m) ==
    {i \in 1..Len(m.parts) : m.parts[i].kind \in {"online", "local_note"}}

\* C17: the message send_full_report hands to delivery, live or simulated,
\* has exactly one annotation of the graph step: the numbered list of online
\* links when an image-hosting key is configured and the graphs directory
\* exists, the stored-locally note otherwise
C17_OneGraphAnnotation ==
    (entry = "send_full_report" /\ DeliveryReached) =>
        /\ Cardinality(GraphAnnotations(message)) = 1
        /\ \A i \in GraphAnnotations(message) :
              message.parts[i].kind =
                  IF imgbb_key # "" /\ disk.dir_exists THEN "online" ELSE "local_note"

====
